---------------------------- MODULE Spec2Model ----------------------------
(***************************************************************************)
(* A model of vqe-estimator/qiskit/vqe_benchmark.py: the VQE benchmark     *)
(* driver (run), the construction of its circuits and observables          *)
(* (VQEEnergy, HartreeFock, ClusterOperatorCircuit, ExpectationCircuit),   *)
(* the two file readers (readPauliExcitation, ReadHamiltonian) and the     *)
(* result analysis (analyze_and_print_result).                             *)
(*                                                                         *)
(* Representation.                                                         *)
(*   - A Pauli string is a sequence of the characters "I","X","Y","Z".     *)
(*   - A JSON object read from a file is the sequence of its               *)
(*     [pauli, coeff] members in file order, with distinct keys (what      *)
(*     json.loads yields and a for loop over the dict visits).             *)
(*   - A SparsePauliOp is the sequence of its terms (from_list keeps the   *)
(*     order and merges nothing).                                          *)
(*   - Coefficients are integers counting units of 1e-4, so the tolerance  *)
(*     1e-4 is 1, the threshold 1e4 is 10^8 and the start value 1e5 is     *)
(*     10^9.                                                               *)
(*   - A circuit is a record [name, num_qubits, data, metadata]; data is   *)
(*     the sequence of its instructions, metadata a function on a subset   *)
(*     of {"method1", "method2"}.                                          *)
(*   - The text of metadata["method1"] is the sequence of its              *)
(*     blank-separated tokens.                                             *)
(*   - None is the empty sequence, a saved circuit c is <<c>>.             *)
(***************************************************************************)
EXTENDS Integers, Sequences, FiniteSets, TLC

VARIABLES
    pc,             \* position of the operation under way
    QC_, Hf_, CO_,  \* the module's saved circuits (None or one circuit)
    normalization,  \* the module's global set by VQEEnergy (method 2)
    \* the files
    ansatz_dict,    \* ansatzes/{norb}_qubit_{circuit_id}.txt
    ham_dict,       \* Hamiltonians/{nqubit}_qubit.txt
    references,     \* precalculated_data_{n}_qubit_method2.json
    \* readPauliExcitation
    pauli_list,
    \* HartreeFock
    norb, na, nb, Hf,
    \* ExpectationCircuit
    circuits,       \* the circuit objects, by reference
    qc, qc_before, pauli, nqubit, raw_qc, is_diag,
    \* VQEEnergy and analyze_and_print_result
    n_spin_orbs, circuit_id, method, pub, expval, fidelity,
    \* run
    min_qubits, max_qubits, skip_qubits, max_circuits,
    backend_id, precision,
    input_size, pub_list, pub_index, submitted, metrics_inited, execution_inited,
    completed,      \* how many submitted pubs the result handler has seen
    last_metric     \* the last metrics.store_metric call of the handler

globalVars == <<QC_, Hf_, CO_, normalization>>
fileVars   == <<ansatz_dict, ham_dict, references>>
readVars   == <<pauli_list>>
hfVars     == <<norb, na, nb, Hf>>
ecVars     == <<circuits, qc, qc_before, pauli, nqubit, raw_qc, is_diag>>
vqeVars    == <<n_spin_orbs, circuit_id, method, pub, expval, fidelity>>
runVars    == <<min_qubits, max_qubits, skip_qubits, max_circuits,
                backend_id, precision,
                input_size, pub_list, pub_index, submitted, metrics_inited,
                execution_inited, completed, last_metric>>
vars == <<pc, globalVars, fileVars, readVars, hfVars, ecVars, vqeVars, runVars>>

-----------------------------------------------------------------------------
(* Bounds of the model *)

MaxTerms == 3       \* members of an ansatz file
MaxHam == 3         \* members of a Hamiltonian file
MaxNorb == 12       \* largest norb HartreeFock is called with
MaxPauliLen == 3    \* longest Pauli string given to ExpectationCircuit
MaxArg == 13        \* largest min_qubits / max_qubits given to run
MinArg == 1         \* run's integer arguments go down to -MinArg
MaxSkip == 2        \* largest skip_qubits given to run
MaxCircuitsArg == 4 \* largest max_circuits given to run

(* Program constants *)

MAX_QUBITS == 12
Tol == 1                   \* 1e-4
InitCoeff == 1000000000    \* 1e5
SentinelMin == 100000000   \* 1e4

-----------------------------------------------------------------------------
(* Helpers *)

None == <<>>
Abs(x) == IF x < 0 THEN -x ELSE x
Min2(a, b) == IF a < b THEN a ELSE b
Max2(a, b) == IF a > b THEN a ELSE b
Last(s) == s[Len(s)]
\* A sequence given as a function on 1..n, as the tuple of its values.
AsTuple(f) == <<>> \o f
Range(n) == AsTuple([i \in 1..Max2(n, 0) |-> i - 1])                 \* list(range(n))
RangeFrom(a, b) == AsTuple([i \in 1..Max2(b - a, 0) |-> a + i - 1])  \* list(range(a, b))
IntHalf(n) == n \div 2                                      \* int(n / 2), n >= 0
IntQuarter(n) == n \div 4                                   \* int(n / 4), n >= 0

RECURSIVE Concat(_)
Concat(ss) == IF ss = <<>> THEN <<>> ELSE Head(ss) \o Concat(Tail(ss))

RECURSIVE SumSeq(_)
SumSeq(s) == IF s = <<>> THEN 0 ELSE Head(s) + SumSeq(Tail(s))

InjectiveSeqs(S, n) == {s \in [1..n -> S] : \A i, j \in 1..n : s[i] = s[j] => i = j}

Term(p, c) == [pauli |-> p, coeff |-> c]

\* The JSON objects with n members, keys from P, values from C.
Dicts(P, C, n) ==
    {[i \in 1..n |-> Term(k[i], v[i])] : k \in InjectiveSeqs(P, n), v \in [1..n -> C]}

\* Coefficients: equal magnitudes of both signs, magnitudes 1e-4 and 2e-4
\* apart, and one above 1e4.
BigCoeff == SentinelMin + 1
Coeffs == {-1, 0, 1, 2, BigCoeff}

\* Two-qubit Pauli strings used as keys of the files.
PauliKeys == {<<"I","I">>, <<"X","Y">>, <<"Y","X">>, <<"Z","Z">>}

\* A Pauli string on n qubits: the key left-padded with "I".
PadPauli(p, n) == [i \in 1..Max2(n - Len(p), 0) |-> "I"] \o p
PadDict(d, n) == AsTuple([i \in 1..Len(d) |-> Term(PadPauli(d[i].pauli, n), d[i].coeff)])

\* str() of a float on the grid of coefficients, and of a small int.
StrFloat(c) ==
    CASE c = -1 -> "-0.0001" [] c = 0 -> "0.0" [] c = 1 -> "0.0001"
      [] c = 2 -> "0.0002" [] OTHER -> "10000.0001"
StrInt(i) == CASE i = 0 -> "0" [] i = 1 -> "1" [] i = 2 -> "2" [] OTHER -> "3"
ParseInt(s) == CASE s = "0" -> 0 [] s = "1" -> 1 [] s = "2" -> 2 [] OTHER -> 3

-----------------------------------------------------------------------------
(* Circuits *)

Instr(op, qubits, param) == [op |-> op, qubits |-> qubits, param |-> param]
EmptyMetadata == [k \in {} |-> <<>>]
QuantumCircuit(n, name) ==
    [name |-> name, num_qubits |-> n, data |-> <<>>, metadata |-> EmptyMetadata]
AppendInstr(c, ins) == [c EXCEPT !.data = Append(@, ins)]
\* qc.append(sub, qubits): the sub-circuit becomes one instruction.
AppendCircuit(c, sub, qubits) == AppendInstr(c, Instr(sub.name, qubits, sub.data))

\* HartreeFock, lines 168-170: for ia in range(na): qc.x(ia)
RECURSIVE AlphaElectrons(_, _, _)
AlphaElectrons(c, ia, n_a) ==
    IF ia >= n_a THEN c
    ELSE AlphaElectrons(AppendInstr(c, Instr("x", <<ia>>, <<>>)), ia + 1, n_a)

\* BetaTarget with the halving applied to the sum, int((ib + norb) / 2).
BetaTargetOfSum(ib, n_orb) == (ib + n_orb) \div 2

\* HartreeFock, lines 172-174: for ib in range(nb): qc.x(ib + int(norb / 2))
BetaTarget(ib, n_orb) == ib + IntHalf(n_orb)
RECURSIVE BetaElectrons(_, _, _, _)
BetaElectrons(c, ib, n_b, n_orb) ==
    IF ib >= n_b THEN c
    ELSE BetaElectrons(AppendInstr(c, Instr("x", <<BetaTarget(ib, n_orb)>>, <<>>)),
                       ib + 1, n_b, n_orb)

\* The circuit HartreeFock returns.
HartreeFock(n_orb, n_a, n_b) ==
    BetaElectrons(AlphaElectrons(QuantumCircuit(n_orb, "Hf"), 0, n_a), 0, n_b, n_orb)

\* HartreeFock, lines 177-180: the saved circuit after the call.
SaveHf(saved, c, n_orb) ==
    IF (saved = None \/ n_orb <= 4) /\ n_orb < 7 THEN <<c>> ELSE saved

-----------------------------------------------------------------------------
(* readPauliExcitation *)

ReadStart == [pauli_list |-> <<>>, cur_coeff |-> InitCoeff, cur_list |-> <<>>]

\* One pass of the loop over the excitations, lines 209-218.
ReadStep(st, ext) ==
    IF st.cur_coeff > SentinelMin
    THEN [st EXCEPT !.cur_coeff = ext.coeff, !.cur_list = <<ext>>]
    ELSE IF Abs(Abs(ext.coeff) - Abs(st.cur_coeff)) > Tol
    THEN [pauli_list |-> Append(st.pauli_list, st.cur_list),
          cur_coeff |-> ext.coeff,
          cur_list |-> <<ext>>]
    ELSE [st EXCEPT !.cur_list = Append(@, ext)]

RECURSIVE ReadLoop(_, _)
ReadLoop(st, d) == IF d = <<>> THEN st ELSE ReadLoop(ReadStep(st, Head(d)), Tail(d))

\* The list readPauliExcitation returns for the file's content d.
readPauliExcitation(d) ==
    LET st == ReadLoop(ReadStart, d) IN Append(st.pauli_list, st.cur_list)

\* ReadHamiltonian: the operator built from the file's members, in order.
ReadHamiltonian(d) == AsTuple([i \in 1..Len(d) |-> Term(d[i].pauli, d[i].coeff)])


-----------------------------------------------------------------------------
(* ExpectationCircuit.  Circuits are objects: `heap' is the sequence of the *)
(* circuit objects and a reference is an index into it.                     *)

\* CircuitCopy without the copy: the same object under another name.
CircuitAlias(heap, ref) == [heap |-> heap, ref |-> ref]

\* qc.copy(), line 126: a new object with the same content.
CircuitCopy(heap, ref) == [heap |-> Append(heap, heap[ref]), ref |-> Len(heap) + 1]

\* Lines 140-146: the gates appended for the character p with its target.
BasisGates(p, target_qubit) ==
    IF p = "X" THEN <<Instr("h", <<target_qubit>>, <<>>)>>
    ELSE IF p = "Y" THEN <<Instr("sdg", <<target_qubit>>, <<>>),
                           Instr("h", <<target_qubit>>, <<>>)>>
    ELSE <<>>

\* Lines 138-146: the loop over enumerate(PauliString), from index i on.
RECURSIVE BasisRotation(_, _, _, _, _, _)
BasisRotation(heap, ref, PauliString, i, nq, diag) ==
    IF i >= Len(PauliString) THEN [heap |-> heap, is_diag |-> diag]
    ELSE LET p == PauliString[i + 1]
             target_qubit == nq - i - 1
         IN BasisRotation([heap EXCEPT ![ref].data = @ \o BasisGates(p, target_qubit)],
                          ref, PauliString, i + 1, nq,
                          IF p = "X" \/ p = "Y" THEN FALSE ELSE diag)

\* raw_qc.measure_all(), line 149: a barrier, then every qubit is measured
\* into the classical bit of its index.
MeasureAll(c) ==
    [c EXCEPT !.data = @ \o <<Instr("barrier", Range(c.num_qubits), <<>>)>>
                         \o [q \in 1..c.num_qubits |-> Instr("measure", <<q - 1>>, <<q - 1>>)]]

\* Lines 155-158: the saved circuit after the call.
SaveQC(saved, c, nq) ==
    IF (saved = None \/ nq <= 4) /\ nq < 7 THEN <<c>> ELSE saved

\* ExpectationCircuit(qc, pauli, nqubit): the objects after the call, the
\* reference returned and the flag returned.
ExpectationCircuit(heap, qcref, pauli_op, nq) ==
    LET cp == CircuitCopy(heap, qcref)
        PauliString == pauli_op[1].pauli
        coeff == pauli_op[1].coeff
        rot == BasisRotation(cp.heap, cp.ref, PauliString, 0, nq, TRUE)
        measured == [rot.heap EXCEPT ![cp.ref] = MeasureAll(@)]
        named == [measured EXCEPT ![cp.ref].name = <<PauliString, StrFloat(coeff)>>]
    IN [heap |-> named, raw_qc |-> cp.ref, is_diag |-> rot.is_diag]

-----------------------------------------------------------------------------
(* VQEEnergy *)

\* for x in xs: for y in ys: append(x \o y), the order of two nested loops.
NestedLoops(xs, ys) ==
    AsTuple([k \in 1..(Len(xs) * Len(ys)) |->
                xs[((k - 1) \div Len(ys)) + 1] \o ys[((k - 1) % Len(ys)) + 1]])

Singletons(s) == AsTuple([i \in 1..Len(s) |-> <<s[i]>>])

\* Lines 56-69: the single excitations of the alpha orbitals, those of the
\* beta orbitals, then the doubles.
ExcitationList(n, n_a, n_b) ==
    LET norb_a == IntHalf(n)
        alpha == NestedLoops(Singletons(Range(n_a)), Singletons(RangeFrom(n_a, norb_a)))
        beta == NestedLoops(Singletons(RangeFrom(norb_a, norb_a + n_b)),
                            Singletons(RangeFrom(norb_a + n_b, n)))
    IN alpha \o beta \o NestedLoops(alpha, beta)

\* ClusterOperatorCircuit, lines 106-112: one PauliEvolutionGate of the
\* operator on all its qubits.
ClusterOperatorCircuit(pauli_op, excitationIndex) ==
    LET num_qubits == Len(pauli_op[1].pauli)
    IN [AppendInstr(QuantumCircuit(num_qubits, "circuit"),
                    Instr("PauliEvolution", Range(num_qubits), pauli_op))
          EXCEPT !.name = <<"Cluster Op", excitationIndex>>]

\* ClusterOperatorCircuit, lines 114-117: the saved circuit after the call.
SaveCO(saved, c) ==
    IF (saved = None \/ c.num_qubits <= 4) /\ c.num_qubits < 7 THEN <<c>> ELSE saved

\* Lines 75-80: the loop over enumerate(pauli_list), from index on;
\* excitationList[index] raises IndexError past the end of the list.
RECURSIVE ClusterLoop(_, _, _, _, _)
ClusterLoop(c, co, pl, excitationList, index) ==
    IF index >= Len(pl) THEN [qc |-> c, CO_ |-> co, raised |-> FALSE]
    ELSE IF index >= Len(excitationList) THEN [qc |-> c, CO_ |-> co, raised |-> TRUE]
    ELSE LET cluster_qc == ClusterOperatorCircuit(pl[index + 1], excitationList[index + 1])
         IN ClusterLoop(AppendCircuit(c, cluster_qc, Range(cluster_qc.num_qubits)),
                        SaveCO(co, cluster_qc), pl, excitationList, index + 1)

\* Line 91: qubit_op[1], the term at Python index 1.
Method1Term(qubit_op) == qubit_op[2]

\* Lines 92: the text stored under "method1".
Method1Metadata(op) == <<op.pauli, StrFloat(op.coeff)>>

Ratio(num, den) == [num |-> num, den |-> den]

\* VQEEnergy(n_spin_orbs, na, nb, circuit_id, method), reading hd as the
\* Hamiltonian file and ad as the ansatz file, from the module globals G.
\* ngroups is len(qubit_op.group_commuting(qubit_wise=True)), decided by the
\* library.  The result: whether the call raised, the globals after it and
\* the pair (qc, observable) returned.  QC_ = qc saves the object, so QC_
\* shows the metadata set after it.
VQEEnergy(G, hd, ad, n, n_a, n_b, cid, m, ngroups) ==
    LET qubit_op == ReadHamiltonian(hd)
        qc0 == QuantumCircuit(n, <<"vqe-ansatz", m, n, cid>>)
        hf == HartreeFock(n, n_a, n_b)
        hf_saved == SaveHf(G.Hf_, hf, n)
        qc1 == AppendCircuit(qc0, hf, Range(n))
        loop == ClusterLoop(qc1, G.CO_, readPauliExcitation(ad),
                            ExcitationList(n, n_a, n_b), 0)
        save_qc == G.QC_ = None /\ n < 7
        op == Method1Term(qubit_op)
        qc_m1 == [loop.qc EXCEPT !.metadata = @ @@ ("method1" :> Method1Metadata(op))]
        rest == Tail(qubit_op)
        qc_m2 == [loop.qc EXCEPT !.metadata = @ @@ ("method2" :> rest)]
        norm == Ratio(SumSeq([i \in 1..Len(rest) |-> Abs(rest[i].coeff)]), ngroups)
        G1 == [G EXCEPT !.Hf_ = hf_saved, !.CO_ = loop.CO_]
    IN IF loop.raised
       THEN [raised |-> TRUE, G |-> G1, pub |-> None]
       ELSE IF m = 1
       THEN [raised |-> FALSE,
             G |-> [G1 EXCEPT !.QC_ = IF save_qc THEN <<qc_m1>> ELSE @],
             pub |-> <<[qc |-> qc_m1, obs |-> <<op>>]>>]
       ELSE [raised |-> FALSE,
             G |-> [G1 EXCEPT !.QC_ = IF save_qc THEN <<qc_m2>> ELSE @,
                              !.normalization = <<norm>>],
             pub |-> <<[qc |-> qc_m2, obs |-> Singletons(rest)]>>]

-----------------------------------------------------------------------------
(* analyze_and_print_result *)

FidScale == 4

\* metrics.accuracy_ratio_fidelity(value, exact, min, max): the distance of
\* the value from the exact one, normalised by the range, as a score from 0
\* to FidScale.
AccuracyRatioFidelity(val, exact, lo, hi) ==
    [fidelity |-> Max2(0, FidScale - (FidScale * Abs(val - exact)) \div (hi - lo))]

\* Zip with the values paired one term late.
ZipShifted(vals, terms) ==
    AsTuple([i \in 1..Min2(Len(vals), Len(terms) - 1) |->
                [val |-> vals[i], pauli |-> terms[i + 1].pauli]])

\* zip(expval, qubit_op.to_list()), line 279: pairs up to the shorter.
Zip(vals, terms) ==
    AsTuple([i \in 1..Min2(Len(vals), Len(terms)) |->
                [val |-> vals[i], pauli |-> terms[i].pauli]])

\* Lines 280-284: the fidelity one pair adds to the total.
TermFidelity(pair, refs) ==
    LET ref == refs[pair.pauli]
    IN AccuracyRatioFidelity(pair.val, ref.exact, ref.min, ref.max).fidelity

\* Lines 278-287: the loop over the pairs; total is the sum so far.
RECURSIVE FidelityLoop(_, _, _)
FidelityLoop(total, pairs, refs) ==
    IF pairs = <<>> THEN total
    ELSE FidelityLoop(total + TermFidelity(Head(pairs), refs), Tail(pairs), refs)

\* Line 287: total_fidelity["fidelity"] /= qubit_op.size
Method2Fidelity(vals, qubit_op, refs) ==
    [fidelity |-> Ratio(FidelityLoop(0, Zip(vals, qubit_op), refs), Len(qubit_op))]

\* The key of a method-1 reference, f"Qubits - {num_qubits} - {circuit_id}".
Method1Key(num_qubits, cid) == <<"Qubits", num_qubits, cid>>

\* analyze_and_print_result(qc, result, num_qubits, references, _): the
\* dictionary returned; vals is result.get_expectation_values(qc).
analyze_and_print_result(c, vals, num_qubits, refs) ==
    IF "method1" \in DOMAIN c.metadata
    THEN LET total_name == c.metadata["method1"]
             cid == ParseInt(total_name[3])
             ref == refs[Method1Key(num_qubits, cid)]
             f == AccuracyRatioFidelity(vals, ref.exact, ref.min, ref.max)
         IN [fidelity |-> Ratio(f.fidelity, 1)]
    ELSE IF "method2" \in DOMAIN c.metadata
    THEN Method2Fidelity(vals, c.metadata["method2"], refs)
    ELSE [raised |-> "RuntimeError"]

-----------------------------------------------------------------------------
(* Values of the variables an operation does not use *)

GlobalsNone == QC_ = None /\ Hf_ = None /\ CO_ = None /\ normalization = None
FilesIdle == ansatz_dict = <<>> /\ ham_dict = <<>> /\ references = <<>>
ReadIdle == pauli_list = <<>>
HfIdle == norb = 0 /\ na = 0 /\ nb = 0 /\ Hf = None
EcIdle ==
    /\ circuits = <<>> /\ qc = 0 /\ qc_before = None /\ pauli = <<>>
    /\ nqubit = 0 /\ raw_qc = 0 /\ is_diag = TRUE
VqeIdle ==
    /\ n_spin_orbs = 0 /\ circuit_id = 0 /\ method = 0 /\ pub = None
    /\ expval = <<>> /\ fidelity = None
RunIdle ==
    /\ min_qubits = 0 /\ max_qubits = 0 /\ skip_qubits = 0 /\ max_circuits = 0
    /\ backend_id = None /\ precision = None
    /\ input_size = 0 /\ pub_list = <<>> /\ pub_index = 0 /\ submitted = <<>>
    /\ metrics_inited = FALSE /\ execution_inited = FALSE
    /\ completed = 0 /\ last_metric = None

-----------------------------------------------------------------------------
(* readPauliExcitation called on the content of an ansatz file *)

AnsatzFiles == UNION {Dicts(PauliKeys, Coeffs, n) : n \in 1..MaxTerms}

InitRead ==
    /\ pc = "call"
    /\ ansatz_dict \in AnsatzFiles
    /\ ham_dict = <<>> /\ references = <<>>
    /\ GlobalsNone /\ ReadIdle /\ HfIdle /\ EcIdle /\ VqeIdle /\ RunIdle

CallReadPauliExcitation ==
    /\ pc = "call"
    /\ pauli_list' = readPauliExcitation(ansatz_dict)
    /\ pc' = "returned"
    /\ UNCHANGED <<globalVars, fileVars, hfVars, ecVars, vqeVars, runVars>>

NextRead == CallReadPauliExcitation

SpecRead == InitRead /\ [][NextRead]_vars

-----------------------------------------------------------------------------
(* HartreeFock called with any norb >= 1 and electron numbers up to norb *)

\* qc.x(q) raises unless q is a qubit of the circuit.
HfRaises(n_orb, n_a, n_b) == n_a > n_orb \/ (n_b > 0 /\ BetaTarget(n_b - 1, n_orb) >= n_orb)

InitHf ==
    /\ pc = "call"
    /\ norb \in 1..MaxNorb
    /\ na \in 0..norb
    /\ nb \in 0..norb
    /\ Hf = None
    /\ Hf_ \in {None, <<HartreeFock(6, 1, 1)>>}
    /\ QC_ = None /\ CO_ = None /\ normalization = None
    /\ FilesIdle /\ ReadIdle /\ EcIdle /\ VqeIdle /\ RunIdle

CallHartreeFock ==
    /\ pc = "call"
    /\ \/ /\ ~HfRaises(norb, na, nb)
          /\ Hf' = <<HartreeFock(norb, na, nb)>>
          /\ Hf_' = SaveHf(Hf_, HartreeFock(norb, na, nb), norb)
          /\ pc' = "returned"
       \/ /\ HfRaises(norb, na, nb)
          /\ pc' = "raised"
          /\ UNCHANGED <<Hf, Hf_>>
    /\ UNCHANGED <<QC_, CO_, normalization, norb, na, nb>>
    /\ UNCHANGED <<fileVars, readVars, ecVars, vqeVars, runVars>>

NextHf == CallHartreeFock

SpecHf == InitHf /\ [][NextHf]_vars

-----------------------------------------------------------------------------
(* ExpectationCircuit called on a circuit of nqubit qubits with a Pauli     *)
(* term on nqubit qubits                                                    *)

PauliChars == {"I", "X", "Y", "Z"}
PauliStrings(n) == [1..n -> PauliChars]

InitEc ==
    /\ pc = "call"
    /\ nqubit \in 1..MaxPauliLen
    /\ \E p \in PauliStrings(nqubit), c \in {-1, 2} : pauli = <<Term(p, c)>>
    /\ \E c \in {QuantumCircuit(nqubit, "vqe"), HartreeFock(nqubit, 1, 0)} :
          /\ circuits = <<c>>
          /\ qc_before = <<c>>
    /\ qc = 1
    /\ raw_qc = 0
    /\ is_diag = TRUE
    /\ QC_ \in {None, <<QuantumCircuit(6, "vqe")>>}
    /\ Hf_ = None /\ CO_ = None /\ normalization = None
    /\ FilesIdle /\ ReadIdle /\ HfIdle /\ VqeIdle /\ RunIdle

CallExpectationCircuit ==
    /\ pc = "call"
    /\ LET r == ExpectationCircuit(circuits, qc, pauli, nqubit)
       IN /\ circuits' = r.heap
          /\ raw_qc' = r.raw_qc
          /\ is_diag' = r.is_diag
          /\ QC_' = SaveQC(QC_, r.heap[r.raw_qc], nqubit)
    /\ pc' = "returned"
    /\ UNCHANGED <<Hf_, CO_, normalization, qc, qc_before, pauli, nqubit>>
    /\ UNCHANGED <<fileVars, readVars, hfVars, vqeVars, runVars>>

NextEc == CallExpectationCircuit

SpecEc == InitEc /\ [][NextEc]_vars

-----------------------------------------------------------------------------
(* One pub from construction to its fidelity: VQEEnergy on any Hamiltonian  *)
(* file, run's tagging of the circuit, the estimator's values, and          *)
(* analyze_and_print_result on them.                                        *)

HamCoeffs == {-1, 2}
HamFiles == UNION {Dicts(PauliKeys, HamCoeffs, n) : n \in 2..MaxHam}

\* An ansatz file whose terms form two groups.
AnsatzSample(cid) ==
    <<Term(<<"X","Y">>, 1), Term(<<"Y","X">>, -1), Term(<<"Z","Z">>, 3 + cid)>>

\* Expectation values the estimator may return, and reference files: every
\* key has its own exact value, which also differs between the two files.
ExpVals == {0, 2}
RefExact(p, t) ==
    CASE Last(p) = "I" -> t [] Last(p) = "Y" -> 1 - t [] Last(p) = "X" -> 2 [] OTHER -> -1
Method2References(n, t) ==
    [p \in {PadPauli(k, n) : k \in PauliKeys} |-> [exact |-> RefExact(p, t), min |-> -2, max |-> 2]]
Method1References(n, t) ==
    [k \in {Method1Key(n, cid) : cid \in 0..2} |-> [exact |-> (k[3] + t) % 2, min |-> -2, max |-> 2]]

Globals == [QC_ |-> QC_, Hf_ |-> Hf_, CO_ |-> CO_, normalization |-> normalization]
SetGlobals(G) ==
    /\ QC_' = G.QC_ /\ Hf_' = G.Hf_ /\ CO_' = G.CO_ /\ normalization' = G.normalization

\* Line 425: pub[0].metadata["method1"] += " " + str(circuit_id)
TagCircuitId(c, cid) == [c EXCEPT !.metadata["method1"] = Append(@, StrInt(cid))]

InitVqe ==
    /\ pc = "call"
    /\ n_spin_orbs = 4
    /\ \E e \in {<<1, 1>>, <<2, 1>>} : na = e[1] /\ nb = e[2]
    /\ method \in {1, 2}
    /\ circuit_id \in (IF method = 1 THEN 0..2 ELSE {0})
    /\ \E d \in HamFiles : ham_dict = PadDict(d, n_spin_orbs)
    /\ ansatz_dict = PadDict(AnsatzSample(circuit_id), n_spin_orbs)
    /\ \E t \in {0, 1} :
          references = IF method = 1 THEN Method1References(n_spin_orbs, t)
                                     ELSE Method2References(n_spin_orbs, t)
    /\ pub = None /\ expval = <<>> /\ fidelity = None
    /\ norb = 0 /\ Hf = None
    /\ GlobalsNone /\ ReadIdle /\ EcIdle /\ RunIdle

CallVQEEnergy ==
    /\ pc = "call"
    /\ \E ngroups \in 1..(Len(ham_dict) - 1) :
          LET r == VQEEnergy(Globals, ham_dict, ansatz_dict, n_spin_orbs, na, nb,
                             circuit_id, method, ngroups)
          IN /\ SetGlobals(r.G)
             /\ \/ /\ ~r.raised
                   /\ pub' = r.pub
                   /\ pc' = "built"
                \/ /\ r.raised
                   /\ pc' = "raised"
                   /\ UNCHANGED pub
    /\ UNCHANGED <<n_spin_orbs, circuit_id, method, expval, fidelity, norb, na, nb, Hf>>
    /\ UNCHANGED <<fileVars, readVars, ecVars, runVars>>

\* run, lines 424-425 and 432-433: the pub as run puts it on its list.
TagPub ==
    /\ pc = "built"
    /\ \/ /\ method = 1
          /\ pub' = <<[pub[1] EXCEPT !.qc = TagCircuitId(@, circuit_id)]>>
          /\ QC_' = IF QC_ = <<pub[1].qc>> THEN <<pub'[1].qc>> ELSE QC_
       \/ /\ method = 2
          /\ UNCHANGED <<pub, QC_>>
    /\ pc' = "listed"
    /\ UNCHANGED <<Hf_, CO_, normalization>>
    /\ UNCHANGED <<n_spin_orbs, circuit_id, method, expval, fidelity, norb, na, nb, Hf>>
    /\ UNCHANGED <<fileVars, readVars, ecVars, runVars>>

\* The estimator: one expectation value for the observable of a method-1
\* pub, one per observable of a method-2 pub.
Estimate ==
    /\ pc = "listed"
    /\ \/ /\ method = 1
          /\ expval' \in ExpVals
       \/ /\ method = 2
          /\ expval' \in [1..Len(pub[1].obs) -> ExpVals]
    /\ pc' = "estimated"
    /\ UNCHANGED <<n_spin_orbs, circuit_id, method, pub, fidelity, norb, na, nb, Hf>>
    /\ UNCHANGED <<globalVars, fileVars, readVars, ecVars, runVars>>

CallAnalyze ==
    /\ pc = "estimated"
    /\ fidelity' = <<analyze_and_print_result(pub[1].qc, expval, n_spin_orbs, references)>>
    /\ pc' = "analyzed"
    /\ UNCHANGED <<n_spin_orbs, circuit_id, method, pub, expval, norb, na, nb, Hf>>
    /\ UNCHANGED <<globalVars, fileVars, readVars, ecVars, runVars>>

NextVqe == CallVQEEnergy \/ TagPub \/ Estimate \/ CallAnalyze

SpecVqe == InitVqe /\ [][NextVqe]_vars

-----------------------------------------------------------------------------
(* run *)

\* The files run reads for a problem size: a Hamiltonian of three terms, an
\* ansatz of two groups per circuit id, and the references of each method.
HamiltonianFile(n) ==
    PadDict(<<Term(<<"I","I">>, -1), Term(<<"Z","Z">>, 2), Term(<<"X","Y">>, -1)>>, n)
AnsatzFile(n, cid) == PadDict(AnsatzSample(cid), n)
ReferenceFile(n, m) == IF m = 1 THEN Method1References(n, 0) ELSE Method2References(n, 0)

\* Lines 319 and 322: max_qubits after validation.
ValidMax(mn, mx) == Min2(Max2(mx, mn), MAX_QUBITS)

\* ValidMin without the step to the next even number.
ValidMinAnyParity(mn, mx) == Min2(Max2(4, mn), mx)

\* Lines 323-325: min_qubits after validation, mx being the validated maximum.
ValidMin(mn, mx) ==
    LET m == Min2(Max2(4, mn), mx) IN IF m % 2 = 1 THEN m + 1 ELSE m

\* NumCircuits without the cap of 3.
NumCircuitsUncapped(mc) == mc

\* Line 402: the number of circuits of a group.
NumCircuits(mc) == Min2(3, mc)

\* Line 397: the size after input_size in range(min_qubits, max_qubits + 1, 2).
NextSize(size, skip) == size + 2

\* Lines 443-446: the circuit id a pub is submitted with.
SubmitId(c) ==
    IF "method1" \in DOMAIN c.metadata THEN c.metadata["method1"][3] ELSE "method2"

Methods == 1..3
Backends == {"statevector_estimator", "qasm_simulator"}

InitRun ==
    /\ pc = "start"
    /\ min_qubits \in (0 - MinArg)..MaxArg
    /\ max_qubits \in (0 - MinArg)..MaxArg
    /\ skip_qubits \in (0 - MinArg)..MaxSkip
    /\ max_circuits \in (0 - MinArg)..MaxCircuitsArg
    /\ method \in Methods
    /\ backend_id \in Backends
    /\ precision = None
    /\ input_size = 0 /\ pub_list = <<>> /\ pub_index = 0 /\ submitted = <<>>
    /\ metrics_inited = FALSE /\ execution_inited = FALSE
    /\ completed = 0 /\ last_metric = None
    /\ n_spin_orbs = 0 /\ circuit_id = 0 /\ pub = None /\ expval = <<>> /\ fidelity = None
    /\ GlobalsNone /\ FilesIdle /\ ReadIdle /\ HfIdle /\ EcIdle

\* Lines 319-340: the arguments are validated; run returns when the largest
\* size is below 4.
RunValidate ==
    /\ pc = "start"
    /\ max_qubits' = ValidMax(min_qubits, max_qubits)
    /\ min_qubits' = ValidMin(min_qubits, max_qubits')
    /\ skip_qubits' = Max2(1, skip_qubits)
    /\ max_circuits' = IF method = 2 THEN 1 ELSE max_circuits
    /\ \/ /\ max_qubits' < 4
          /\ pc' = "returned"
          /\ UNCHANGED precision
       \/ /\ max_qubits' >= 4
          /\ precision' = IF backend_id = "statevector_estimator"
                          THEN <<"0">> ELSE <<"1/sqrt(num_shots)">>
          /\ pc' = "setup"
    /\ UNCHANGED <<backend_id, input_size, pub_list, pub_index, submitted,
                   metrics_inited, execution_inited, completed, last_metric>>
    /\ UNCHANGED <<globalVars, fileVars, readVars, hfVars, ecVars, vqeVars>>

\* Lines 349-391: metrics.init_metrics, ex.init_execution and
\* ex.set_execution_target; then the loop over the sizes starts.
RunSetup ==
    /\ pc = "setup"
    /\ metrics_inited' = TRUE
    /\ execution_inited' = TRUE
    /\ input_size' = min_qubits
    /\ pc' = "loop"
    /\ UNCHANGED <<min_qubits, max_qubits, skip_qubits, max_circuits, backend_id,
                   precision, pub_list, pub_index, submitted, completed, last_metric>>
    /\ UNCHANGED <<globalVars, fileVars, readVars, hfVars, ecVars, vqeVars>>

\* Line 397: the next size of the range, or the end of the loop.
RunLoop ==
    /\ pc = "loop"
    /\ \/ /\ input_size <= max_qubits
          /\ pub_list' = <<>>
          /\ pc' = "build"
       \/ /\ input_size > max_qubits
          /\ UNCHANGED pub_list
          /\ pc' = "finalize"
    /\ UNCHANGED <<min_qubits, max_qubits, skip_qubits, max_circuits, backend_id,
                   precision, input_size, pub_index, submitted, metrics_inited,
                   execution_inited, completed, last_metric>>
    /\ UNCHANGED <<globalVars, fileVars, readVars, hfVars, ecVars, vqeVars>>

\* Lines 420-428: one pass of the loop over range(num_circuits).
RunBuildMethod1 ==
    /\ pc = "build"
    /\ method = 1
    /\ Len(pub_list) < NumCircuits(max_circuits)
    /\ circuit_id' = Len(pub_list)
    /\ LET r == VQEEnergy(Globals, HamiltonianFile(input_size),
                          AnsatzFile(input_size, circuit_id'), input_size,
                          IntQuarter(input_size), IntQuarter(input_size),
                          circuit_id', method, 1)
           tagged == TagCircuitId(r.pub[1].qc, circuit_id')
       IN /\ ~r.raised
          /\ pub' = <<[r.pub[1] EXCEPT !.qc = tagged]>>
          /\ pub_list' = Append(pub_list, pub'[1])
          /\ SetGlobals([r.G EXCEPT !.QC_ = IF @ = <<r.pub[1].qc>> THEN <<tagged>> ELSE @])
    /\ UNCHANGED pc
    /\ UNCHANGED <<n_spin_orbs, method, expval, fidelity>>
    /\ UNCHANGED <<min_qubits, max_qubits, skip_qubits, max_circuits, backend_id,
                   precision, input_size, pub_index, submitted, metrics_inited,
                   execution_inited, completed, last_metric>>
    /\ UNCHANGED <<fileVars, readVars, hfVars, ecVars>>

\* Lines 430-433: the one pub of method 2.
RunBuildMethod2 ==
    /\ pc = "build"
    /\ method = 2
    /\ \E ngroups \in 1..(Len(HamiltonianFile(input_size)) - 1) :
          LET r == VQEEnergy(Globals, HamiltonianFile(input_size),
                             AnsatzFile(input_size, 0), input_size,
                             IntQuarter(input_size), IntQuarter(input_size),
                             0, method, ngroups)
          IN /\ ~r.raised
             /\ pub' = r.pub
             /\ pub_list' = Append(pub_list, pub'[1])
             /\ SetGlobals(r.G)
    /\ pub_index' = 0
    /\ pc' = "submit"
    /\ UNCHANGED <<n_spin_orbs, circuit_id, method, expval, fidelity>>
    /\ UNCHANGED <<min_qubits, max_qubits, skip_qubits, max_circuits, backend_id,
                   precision, input_size, submitted, metrics_inited,
                   execution_inited, completed, last_metric>>
    /\ UNCHANGED <<fileVars, readVars, hfVars, ecVars>>

\* The pub list is complete: method 1 after its last circuit, any other
\* method but 2 with no pub at all.
RunBuildDone ==
    /\ pc = "build"
    /\ \/ method = 1 /\ Len(pub_list) >= NumCircuits(max_circuits)
       \/ method # 1 /\ method # 2
    /\ pub_index' = 0
    /\ pc' = "submit"
    /\ UNCHANGED <<min_qubits, max_qubits, skip_qubits, max_circuits, backend_id,
                   precision, input_size, pub_list, submitted, metrics_inited,
                   execution_inited, completed, last_metric>>
    /\ UNCHANGED <<globalVars, fileVars, readVars, hfVars, ecVars, vqeVars>>

\* Lines 439-457: one pass of the loop over pub_list, or its end.
RunSubmit ==
    /\ pc = "submit"
    /\ \/ /\ pub_index < Len(pub_list)
          /\ LET p == pub_list[pub_index + 1]
             IN /\ circuit_id' = SubmitId(p.qc)
                /\ last_metric' = <<[num_qubits |-> input_size, circuit_id |-> circuit_id',
                                     metric |-> "create_time", value |-> "elapsed"]>>
                /\ submitted' = Append(submitted,
                                       [pub |-> p, num_qubits |-> input_size,
                                        circuit_id |-> circuit_id',
                                        precision |-> precision[1]])
          /\ pub_index' = pub_index + 1
          /\ UNCHANGED pc
       \/ /\ pub_index >= Len(pub_list)
          /\ pc' = "throttle"
          /\ UNCHANGED <<circuit_id, last_metric, submitted, pub_index>>
    /\ UNCHANGED <<n_spin_orbs, method, pub, expval, fidelity>>
    /\ UNCHANGED <<min_qubits, max_qubits, skip_qubits, max_circuits, backend_id,
                   precision, input_size, pub_list, metrics_inited,
                   execution_inited, completed>>
    /\ UNCHANGED <<globalVars, fileVars, readVars, hfVars, ecVars>>

\* Line 460: ex.throttle_execution returns and the loop goes on.
RunThrottle ==
    /\ pc = "throttle"
    /\ input_size' = NextSize(input_size, skip_qubits)
    /\ pc' = "loop"
    /\ UNCHANGED <<min_qubits, max_qubits, skip_qubits, max_circuits, backend_id,
                   precision, pub_list, pub_index, submitted, metrics_inited,
                   execution_inited, completed, last_metric>>
    /\ UNCHANGED <<globalVars, fileVars, readVars, hfVars, ecVars, vqeVars>>

\* execution_handler, lines 352-379: called by the execution module, while
\* run waits in throttle_execution or finalize_execution, with the result of
\* the oldest pub not yet handled.
ExecutionHandler ==
    /\ pc \in {"throttle", "finalize"}
    /\ completed < Len(submitted)
    /\ LET job == submitted[completed + 1]
           c == job.pub.qc
           m == IF "method1" \in DOMAIN c.metadata THEN 1 ELSE 2
       IN /\ \/ /\ m = 1
                /\ expval' \in ExpVals
             \/ /\ m = 2
                /\ expval' \in [1..Len(job.pub.obs) -> ExpVals]
          /\ fidelity' = <<analyze_and_print_result(c, expval', job.num_qubits,
                                                    ReferenceFile(job.num_qubits, m))>>
          /\ last_metric' = <<[num_qubits |-> job.num_qubits, circuit_id |-> SubmitId(c),
                               metric |-> "fidelity", value |-> fidelity'[1]]>>
    /\ completed' = completed + 1
    /\ UNCHANGED <<n_spin_orbs, circuit_id, method, pub>>
    /\ UNCHANGED <<min_qubits, max_qubits, skip_qubits, max_circuits, backend_id,
                   precision, input_size, pub_list, pub_index, submitted,
                   metrics_inited, execution_inited>>
    /\ UNCHANGED <<pc, globalVars, fileVars, readVars, hfVars, ecVars>>

\* Lines 463-476: every pub has been handled; the report is printed.
RunFinalize ==
    /\ pc = "finalize"
    /\ completed = Len(submitted)
    /\ pc' = "returned"
    /\ UNCHANGED <<globalVars, fileVars, readVars, hfVars, ecVars, vqeVars, runVars>>

NextRun ==
    \/ RunValidate \/ RunSetup \/ RunLoop
    \/ RunBuildMethod1 \/ RunBuildMethod2 \/ RunBuildDone
    \/ RunSubmit \/ RunThrottle \/ ExecutionHandler \/ RunFinalize

SpecRun == InitRun /\ [][NextRun]_vars

-----------------------------------------------------------------------------
(* Properties *)

Magnitude(t) == Abs(t.coeff)
NoSentinel(d) == \A i \in 1..Len(d) : d[i].coeff <= SentinelMin

\* The returned groups are runs grouped by magnitude: every term is within
\* 1e-4 of its group's first term, and every later group starts more than
\* 1e-4 away from the start of the group before it.
GroupedByMagnitude(pl) ==
    /\ \A g \in 1..Len(pl) : \A k \in 1..Len(pl[g]) :
          Abs(Magnitude(pl[g][k]) - Magnitude(pl[g][1])) <= Tol
    /\ \A g \in 2..Len(pl) :
          Abs(Magnitude(pl[g][1]) - Magnitude(pl[g - 1][1])) > Tol

\* C1: readPauliExcitation groups the terms by coefficient magnitude: in the
\* list it returns every term of a group is within 1e-4 in magnitude of the
\* group's first term, and the first term of every group after the first
\* differs by more than 1e-4 in magnitude from the first term of the group
\* before it.
C1_GroupedByMagnitude == pc = "returned" => GroupedByMagnitude(pauli_list)

\* The same for the files with no coefficient above 1e4.
C1_GroupedBelowSentinel ==
    (pc = "returned" /\ NoSentinel(ansatz_dict)) => GroupedByMagnitude(pauli_list)

\* C2: for every non-empty ansatz dictionary the groups readPauliExcitation
\* returns, concatenated in order, are exactly the input sequence of terms:
\* nothing is dropped, duplicated or reordered, whatever the coefficients.
C2_GroupsPartitionInput == pc = "returned" => Concat(pauli_list) = ansatz_dict

\* The same for the files with no coefficient above 1e4.
C2_PartitionBelowSentinel ==
    (pc = "returned" /\ NoSentinel(ansatz_dict)) => Concat(pauli_list) = ansatz_dict

\* C3: with method 1 VQEEnergy returns as its single observable the last
\* term of the Hamiltonian read by ReadHamiltonian, and records that term's
\* Pauli string and real coefficient in the metadata under "method1".
C3_Method1LastTerm ==
    (pc = "built" /\ method = 1) =>
        LET last == Last(ReadHamiltonian(ham_dict))
        IN /\ pub[1].obs = <<last>>
           /\ pub[1].qc.metadata["method1"] = <<last.pauli, StrFloat(last.coeff)>>

\* What the code does: the observable and the metadata are those of the
\* second term of the Hamiltonian.
C3_Method1SecondTerm ==
    (pc = "built" /\ method = 1) =>
        LET second == ReadHamiltonian(ham_dict)[2]
        IN /\ pub[1].obs = <<second>>
           /\ pub[1].qc.metadata["method1"] = <<second.pauli, StrFloat(second.coeff)>>

C5_ExpectationCircuit ==
    pc = "returned" =>
        LET P == pauli[1].pauli
            before == qc_before[1]
            raw == circuits[raw_qc]
            Rot(i) == CASE P[i + 1] = "X" -> <<Instr("h", <<nqubit - i - 1>>, <<>>)>>
                        [] P[i + 1] = "Y" -> <<Instr("sdg", <<nqubit - i - 1>>, <<>>),
                                               Instr("h", <<nqubit - i - 1>>, <<>>)>>
                        [] OTHER -> <<>>
            rotations == Concat([k \in 1..Len(P) |-> Rot(k - 1)])
            added == SubSeq(raw.data, Len(before.data) + 1, Len(raw.data))
            rest == SubSeq(added, Len(rotations) + 1, Len(added))
        IN /\ SubSeq(raw.data, 1, Len(before.data)) = before.data
           /\ SubSeq(added, 1, Len(rotations)) = rotations
           /\ \A i \in 1..Len(rest) : rest[i].op \in {"barrier", "measure"}
           /\ \A q \in 0..(raw.num_qubits - 1) :
                 Cardinality({i \in 1..Len(rest) :
                                rest[i].op = "measure" /\ rest[i].qubits = <<q>>}) = 1
           /\ is_diag = (\A k \in 1..Len(P) : P[k] \notin {"X", "Y"})
           /\ raw_qc # qc
           /\ circuits[qc] = before

C5_Witness ==
    /\ pc = "returned"
    /\ pauli[1].pauli = <<"X", "Y", "Z">>
    /\ ~is_diag
    /\ Len(circuits[qc].data) = 1
    /\ Len(circuits[raw_qc].data) = 8

\* C6: for even norb and 0 <= na, nb <= norb/2 (so for every size run uses,
\* with na = nb = floor(norb/4)) HartreeFock applies X exactly once to each
\* alpha qubit 0..na-1 and each beta qubit norb/2..norb/2+nb-1 and to no
\* other qubit: na+nb orbitals are occupied and every target is below norb.
C6_HartreeFockOccupation ==
    (pc = "returned" /\ norb % 2 = 0 /\ na <= norb \div 2 /\ nb <= norb \div 2) =>
        LET data == Hf[1].data
            occupied == (0..(na - 1)) \cup ((norb \div 2)..((norb \div 2) + nb - 1))
            Count(q) == Cardinality({i \in 1..Len(data) : data[i].qubits = <<q>>})
        IN /\ \A i \in 1..Len(data) :
                 /\ data[i].op = "x"
                 /\ Len(data[i].qubits) = 1
                 /\ data[i].qubits[1] \in 0..(norb - 1)
           /\ \A q \in 0..(norb - 1) : Count(q) = IF q \in occupied THEN 1 ELSE 0
           /\ Len(data) = na + nb

C6_Witness ==
    /\ pc = "returned"
    /\ norb = MAX_QUBITS /\ na = IntQuarter(norb) /\ nb = IntQuarter(norb)
    /\ Len(Hf[1].data) = 6

\* C7: in run, skip_qubits (raised to at least 1) is the spacing of the
\* problem sizes: consecutive sizes for which circuits are built and
\* submitted differ by skip_qubits.
C7_SpacingIsSkipQubits ==
    \A i \in 1..(Len(submitted) - 1) :
        submitted[i + 1].num_qubits # submitted[i].num_qubits =>
            submitted[i + 1].num_qubits - submitted[i].num_qubits = skip_qubits

\* What the code does: consecutive sizes differ by 2.
C7_SpacingIsTwo ==
    \A i \in 1..(Len(submitted) - 1) :
        submitted[i + 1].num_qubits # submitted[i].num_qubits =>
            submitted[i + 1].num_qubits - submitted[i].num_qubits = 2

\* C8: for all integer min_qubits and max_qubits every size for which a pub
\* is built or submitted is even and between 4 and 12, the sizes are visited
\* in strictly increasing order, and when the validated max_qubits is below 4
\* run returns before initialising metrics or execution, submitting nothing.
C8_SizesValid ==
    /\ \A i \in 1..Len(submitted) :
          /\ submitted[i].num_qubits % 2 = 0
          /\ submitted[i].num_qubits \in 4..12
          /\ submitted[i].pub.qc.num_qubits = submitted[i].num_qubits
    /\ pc \in {"build", "submit", "throttle"} =>
          \A i \in 1..Len(pub_list) :
              /\ pub_list[i].qc.num_qubits = input_size
              /\ input_size % 2 = 0
              /\ input_size \in 4..12
    /\ \A i, j \in 1..Len(submitted) :
          i < j => \/ submitted[i].num_qubits < submitted[j].num_qubits
                   \/ /\ submitted[i].num_qubits = submitted[j].num_qubits
                      /\ method = 1
                      /\ ParseInt(submitted[i].circuit_id) < ParseInt(submitted[j].circuit_id)
    /\ pc \in {"build", "submit", "throttle"} =>
          \A i \in 1..Len(submitted) : submitted[i].num_qubits <= input_size
    /\ (pc # "start" /\ max_qubits < 4) =>
          /\ pc = "returned"
          /\ ~metrics_inited /\ ~execution_inited
          /\ submitted = <<>> /\ pub_list = <<>>

C8_Witness ==
    /\ pc = "returned"
    /\ Len(submitted) >= 5
    /\ submitted[1].num_qubits = 4
    /\ Last(submitted).num_qubits = 12

\* The pubs submitted for the size of the group under way.
Group == LET InGroup(s) == s.num_qubits = input_size IN SelectSeq(submitted, InGroup)

\* Method 1: the ids of the group are 0, 1, ... in order, each the id its
\* circuit was built with and the third token of its "method1" metadata.
Method1Ids(group) ==
    \A k \in 1..Len(group) :
        /\ group[k].circuit_id = StrInt(k - 1)
        /\ group[k].pub.qc.name[4] = k - 1
        /\ group[k].pub.qc.metadata["method1"][3] = group[k].circuit_id

Method2Group(group) == Len(group) = 1 /\ group[1].circuit_id = "method2"

\* C9 as stated: for each size run visits, method 1 submits exactly
\* min(3, max_circuits) pubs, with circuit ids 0, 1, ... in increasing order,
\* each the id the pub was built with; method 2 submits exactly one pub, with
\* circuit id "method2", whatever max_circuits is.
C9_PubsPerSize ==
    pc = "throttle" =>
        /\ method = 1 => Len(Group) = Min2(3, max_circuits) /\ Method1Ids(Group)
        /\ method = 2 => Method2Group(Group)

\* C9 amended: with method 1 the number of pubs is min(3, max_circuits) when
\* that is positive and 0 otherwise.
C9_PubsPerSizeAmended ==
    pc = "throttle" =>
        /\ method = 1 => Len(Group) = Max2(0, Min2(3, max_circuits)) /\ Method1Ids(Group)
        /\ method = 2 => Method2Group(Group)

C9_Witness ==
    /\ pc = "throttle"
    /\ method = 1
    /\ max_circuits > 3
    /\ input_size = 8
    /\ Len(Group) = 3
    /\ Len(submitted) = 9

=============================================================================
